---- MODULE Spec2Model ----
(***************************************************************************)
(* Model of the CV-Backend request handlers (routes/job_seeker.py,         *)
(* routes/auth.py) and of the services they call (job_parser,              *)
(* resume_parser, candidate_analysis, resume_enhancer, interview_prep).    *)
(*                                                                         *)
(* One request is in flight at a time (variable req); every external call  *)
(* (LLM, page fetch, web search, PDF server) is two steps, its issue and   *)
(* its return, and every database operation is one step.  The replies of   *)
(* the external services are the inputs: each return action draws its      *)
(* reply from a small set.  req holds the handler's position and locals,   *)
(* which are dropped when the function that owns them returns or raises,   *)
(* and the record of what the request has done so far (calls, rets,        *)
(* failed, sent, ins, steps).                                              *)
(*                                                                         *)
(* A JSON object is modelled by the set of its key paths (a path is a      *)
(* tuple of keys, "[]" standing for "an element of this list") together    *)
(* with the scalar values the handlers read.                               *)
(***************************************************************************)
EXTENDS Integers, Sequences, FiniteSets, TLC

VARIABLES users, analyses, enhanced_resumes, interviews, files,
          nextOid, nextUuid, clock, req, returned, registering

vars == <<users, analyses, enhanced_resumes, interviews, files,
          nextOid, nextUuid, clock, req, returned, registering>>

db == <<users, analyses, enhanced_resumes, interviews>>

----------------------------------------------------------------------------
(* Bounds of the model *)

\* documents the analyses collection may hold: when the services reply
\* anything (Spec), and when they reply in the shapes asked for (SpecHistory)
MaxAnalyses == 1
MaxHistory == 2
\* documents enhanced_resumes and interviews may hold together, and files
\* the Resumes directory may hold
MaxDerived == 1
\* latest value of the clock read by _now()
MaxClock == 0
\* files the Resumes directory may hold when generate_enhanced_resume is
\* called directly
MaxFiles == 2
\* documents of the analyses collections list_analyses is tried on
MaxListed == 22
\* documents users may hold when register requests run concurrently
MaxUsers == 3

----------------------------------------------------------------------------
(* Inputs *)

Emails == {"ann@x.io", "bob@x.io"}
Roles == {"candidate"}

\* bearer tokens: a token either fails jwt.decode or carries a payload
\* (sub and role may be absent)
NoClaim == "<none>"
Tokens ==
    { [valid |-> FALSE, sub |-> NoClaim, role |-> NoClaim] }
    \cup { [valid |-> TRUE, sub |-> e, role |-> "candidate"] : e \in Emails }
    \cup { [valid |-> TRUE, sub |-> NoClaim, role |-> "candidate"],
           [valid |-> TRUE, sub |-> "ann@x.io", role |-> NoClaim] }

JobUrls == {"", "ftp://jobs/1", "https://jobs/1"}
FileNames == {"cv.PDF", "cv.docx", "cv.txt"}

Skills == {"sql", "k8s"}

----------------------------------------------------------------------------
(* The JSON templates, as sets of key paths *)

ANALYSIS_TEMPLATE ==
    { <<"overall_analysis">>,
      <<"overall_analysis", "overall_match_score">>,
      <<"overall_analysis", "skills_match">>,
      <<"overall_analysis", "experience_match">>,
      <<"overall_analysis", "education_match">>,
      <<"overall_analysis", "certifications_match">>,
      <<"overall_analysis", "missing_skills_count">>,
      <<"overall_analysis", "ats_score">>,
      <<"charts">>,
      <<"charts", "skill_match_distribution">>,
      <<"charts", "skill_match_distribution", "matched">>,
      <<"charts", "skill_match_distribution", "missing">>,
      <<"charts", "skill_match_distribution", "partially_matched">>,
      <<"charts", "experience_comparison">>,
      <<"charts", "experience_comparison", "required_experience_years">>,
      <<"charts", "experience_comparison", "candidate_experience_years">>,
      <<"charts", "word_cloud_keywords">>,
      <<"charts", "word_cloud_keywords", "[]", "word">>,
      <<"charts", "word_cloud_keywords", "[]", "frequency">>,
      <<"charts", "career_timeline">>,
      <<"charts", "career_timeline", "[]", "year">>,
      <<"charts", "career_timeline", "[]", "role">>,
      <<"charts", "career_timeline", "[]", "organization">>,
      <<"charts", "resume_effectiveness">>,
      <<"charts", "resume_effectiveness", "gauge_score">>,
      <<"profile_highlights">>,
      <<"profile_highlights", "publications">>,
      <<"profile_highlights", "volunteer_work">>,
      <<"improvement_suggestions">>,
      <<"improvement_suggestions", "textual_feedback">>,
      <<"improvement_suggestions", "recommended_courses">>,
      <<"improvement_suggestions", "recommended_courses", "[]", "name">>,
      <<"improvement_suggestions", "recommended_courses", "[]", "platform">>,
      <<"improvement_suggestions", "recommended_courses", "[]", "url">>,
      <<"improvement_suggestions", "skill_gap_closure_plan">>,
      <<"improvement_suggestions", "skill_gap_closure_plan", "[]", "missing_skill">>,
      <<"improvement_suggestions", "skill_gap_closure_plan", "[]", "recommended_action">>,
      <<"improvement_suggestions", "skill_gap_closure_plan", "[]", "priority_level">>,
      <<"improvement_suggestions", "resume_optimization_tips">> }

JOB_TEMPLATE ==
    { <<"job_title">>,
      <<"company">>,
      <<"company", "name">>,
      <<"company", "location">>,
      <<"company", "industry">>,
      <<"job_details">>,
      <<"job_details", "employment_type">>,
      <<"job_details", "work_mode">>,
      <<"job_details", "experience_required">>,
      <<"job_details", "salary_range">>,
      <<"job_details", "posted_date">>,
      <<"requirements">>,
      <<"requirements", "must_have_skills">>,
      <<"requirements", "nice_to_have_skills">>,
      <<"requirements", "education">>,
      <<"requirements", "experience_years">>,
      <<"requirements", "certifications">>,
      <<"responsibilities">>,
      <<"core_competencies_needed">>,
      <<"job_description_raw">>,
      <<"application_url">> }

RESUME_TEMPLATE ==
    { <<"candidate_name">>,
      <<"contact_info">>,
      <<"contact_info", "email">>,
      <<"contact_info", "phone">>,
      <<"contact_info", "linkedin">>,
      <<"contact_info", "portfolio">>,
      <<"contact_info", "location">>,
      <<"current_role">>,
      <<"experience_years">>,
      <<"core_competencies">>,
      <<"skills">>,
      <<"education">>,
      <<"education", "[]", "institution">>,
      <<"education", "[]", "degree">>,
      <<"education", "[]", "year">>,
      <<"work_experience">>,
      <<"work_experience", "[]", "company">>,
      <<"work_experience", "[]", "role">>,
      <<"work_experience", "[]", "employment_type">>,
      <<"work_experience", "[]", "start_date">>,
      <<"work_experience", "[]", "end_date">>,
      <<"work_experience", "[]", "is_current">>,
      <<"work_experience", "[]", "description">>,
      <<"achievements">>,
      <<"projects">>,
      <<"projects", "[]", "title">>,
      <<"projects", "[]", "tech_stack">>,
      <<"projects", "[]", "details">>,
      <<"projects", "[]", "github_url">>,
      <<"projects", "[]", "live_url">> }

\* a path that runs through a list element
IsItemPath(p) == \E i \in 1..Len(p) : p[i] = "[]"

\* keys is exactly the shape of template: every key of the template is
\* present (the keys of list elements when the list has elements) and no
\* other key is
MatchesTemplate(keys, template) ==
    /\ keys \subseteq template
    /\ \A p \in template : ~IsItemPath(p) => p \in keys


----------------------------------------------------------------------------
(* Values *)

\* a JSON object of which only the shape is read
NoJson == [keys |-> {}]

\* the analysis JSON: its shape and overall_analysis.overall_match_score,
\* which is a number, a string holding a number with a fraction ("87.5"),
\* or a string that is no number
ScoreKinds == {"number", "fraction_string", "text"}
NoTemplate == [keys |-> {}, scoreKind |-> "number", score |-> 0]

\* _map_template_to_candidate_analysis' result, the fields that depend on
\* its arguments
NoAnalysis == [targetRole |-> "", jobMatchScore |-> 0, summary |-> ""]

\* A string given as an analysis id: the 24 hex digits of the ObjectId hex,
\* written in lower or upper case; hex = 0 is a string that is no ObjectId.
NoStr == [hex |-> 0, upper |-> FALSE]

\* str(ObjectId): lower-case hex
str(oid) == [hex |-> oid, upper |-> FALSE]

\* bson.ObjectId(s): accepts 24 hex digits of either case
ObjectIdValid(s) == s.hex >= 1
ObjectId(s) == s.hex

\* a path of a PDF written under the Resumes directory; None has no directory
NoPath == [dir |-> "", uuid |-> 0]

\* requests.post's outcome at the PDF server, before it arrives
NoPdfReply == [raised |-> FALSE, status |-> 0, ctype |-> "", bytes |-> 0]

NoDoc == [_id |-> 0, user_email |-> "", job_url |-> "", job_data |-> NoJson,
          resume_data |-> NoJson, analysis_template |-> NoTemplate,
          candidate_analysis |-> NoAnalysis, match_score |-> 0,
          match_kind |-> "number", role |-> "",
          created_at |-> 0, updated_at |-> 0]

\* no access token
NoToken == [valid |-> FALSE, sub |-> NoClaim, role |-> NoClaim]

\* the response of a handler; status 0: none yet; pdf_url is the uuid in
\* /files/resume-<uuid>.pdf, 0 for None; access_token is login's token, user
\* the email of the UserPublic returned, listed the items of list_analyses
\* and of history.  A service function called directly answers with no
\* status: raised is the class of the exception it raised, "" when it
\* returned, and job_data / resume_data what a parser returned.
NoResp == [status |-> 0, id |-> NoStr, analysis |-> NoAnalysis,
           template |-> NoTemplate, items |-> <<>>, html |-> "",
           pdf_path |-> NoPath, pdf_url |-> 0,
           access_token |-> NoToken, user |-> "", listed |-> <<>>,
           raised |-> "", parsed |-> NoJson]


\* the external calls: pc is the kind of the call while it is in flight
CallKinds == {"fetch", "llm_job", "llm_resume", "llm_missing", "llm_expand",
              "search", "llm_rank", "llm_final", "llm_html", "pdf_post",
              "llm_questions", "llm_answers"}

NoSent == [list |-> <<>>, courses |-> <<>>]

\* the request slot when no request is in flight
Idle ==
    [op |-> "idle", pc |-> "idle",
     token |-> NoToken,
     user |-> "", job_url |-> "", filename |-> "", analysis_id |-> NoStr,
     template_id |-> "", return_pdf |-> FALSE,
     job_data |-> NoJson, resume_data |-> NoJson,
     missing |-> <<>>, expanded |-> <<>>, idx |-> 0, results |-> <<>>,
     courses |-> <<>>, template |-> NoTemplate, analysis |-> NoAnalysis,
     doc |-> NoDoc, questions |-> <<>>, answers |-> <<>>,
     html |-> "", pdf_reply |-> NoPdfReply, pdf_path |-> NoPath,
     resp |-> NoResp,
     \* the record of the request:
     \* how often each kind of call was issued and has returned,
     calls |-> [k \in CallKinds |-> 0], rets |-> [k \in CallKinds |-> 0],
     \* the calls <<kind, argument>> that failed,
     failed |-> {},
     \* the argument of the call in flight and the lists it was given,
     call_arg |-> "", sent |-> NoSent,
     \* the inserts made, in order,
     ins |-> <<>>,
     \* the steps of analyze begun, each running, ok or failed
     steps |-> <<>>]

\* the register handlers in flight: none
Handlers == {1, 2}
NoRegister == [pc |-> "idle", email |-> "", password |-> "", status |-> 0]

Init ==
    /\ users = <<>>
    /\ analyses = <<>>
    /\ enhanced_resumes = <<>>
    /\ interviews = <<>>
    /\ files = {}
    /\ nextOid = 1
    /\ nextUuid = 1
    /\ clock = 0
    /\ req = Idle
    /\ returned = <<>>
    /\ registering = [h \in Handlers |-> NoRegister]

----------------------------------------------------------------------------
(* Helpers of the handlers *)

\* what stays of a request once its handler has returned or raised
Ended(r, resp) ==
    [Idle EXCEPT !.op = r.op, !.pc = "done", !.user = r.user,
                 !.analysis_id = r.analysis_id, !.resp = resp,
                 !.calls = r.calls, !.rets = r.rets, !.failed = r.failed,
                 !.ins = r.ins, !.steps = r.steps]

\* the handler ends with an HTTP response of this status and no body
Fail(r, status) == Ended(r, [NoResp EXCEPT !.status = status])

\* the operations that are calls of a service function, not requests
ServiceCalls == {"parse_job_from_url", "parse_resume", "generate_enhanced_resume"}

\* a service function raises: its caller gets the exception when it was
\* called directly, and the route that called it answers 500
Raise(r, exc) ==
    IF r.op \in ServiceCalls
    THEN [Ended(r, [NoResp EXCEPT !.raised = exc])
            EXCEPT !.job_url = r.job_url, !.filename = r.filename,
                   !.template_id = r.template_id, !.return_pdf = r.return_pdf]
    ELSE Fail(r, 500)

\* an external call is issued
Issue(r, kind, arg, list, courses) ==
    [r EXCEPT !.pc = kind, !.calls[kind] = @ + 1, !.call_arg = arg,
              !.sent = [list |-> list, courses |-> courses]]

\* the call in flight returns
Returns(r, ok) ==
    [r EXCEPT !.rets[r.pc] = @ + 1,
              !.failed = IF ok THEN @ ELSE @ \cup {<<r.pc, r.call_arg>>},
              !.call_arg = "", !.sent = NoSent]

BeginStep(r, step) == [r EXCEPT !.steps = Append(@, [name |-> step, status |-> "running"])]
EndStep(r, ok) ==
    [r EXCEPT !.steps[Len(r.steps)].status = IF ok THEN "ok" ELSE "failed"]

Inserted(r, coll, email, oid) ==
    [r EXCEPT !.ins = Append(@, [coll |-> coll, email |-> email, oid |-> oid])]

\* find_one({"email": email}) on users
FindUser(email) ==
    LET hits == { i \in 1..Len(users) : users[i].email = email }
    IN  IF hits = {} THEN 0 ELSE CHOOSE i \in hits : \A j \in hits : i <= j

\* (a slip: the filter names the user only)
FindAnalysisAs_AnyId(oid, email) ==
    LET hits == { i \in 1..Len(analyses) : analyses[i].user_email = email }
    IN  IF hits = {} THEN 0 ELSE CHOOSE i \in hits : \A j \in hits : i <= j

\* find_one({"_id": oid, "user_email": email}) on analyses: the index of the
\* document, 0 when there is none
FindAnalysisAs(oid, email) ==
    LET hits == { i \in 1..Len(analyses) :
                    analyses[i]._id = oid /\ analyses[i].user_email = email }
    IN  IF hits = {} THEN 0 ELSE CHOOSE i \in hits : \A j \in hits : i <= j

\* the times _now() may return next
Nows == { t \in clock..MaxClock : t <= clock + 1 }

----------------------------------------------------------------------------
(* Replies of the external services *)

\* An LLM completion: the API call raises, or the content is not JSON, or
\* it is a JSON object.
LlmKinds == {"api_error", "invalid_json", "json"}

JobReplies ==
    { [kind |-> "api_error", keys |-> {}], [kind |-> "invalid_json", keys |-> {}],
      [kind |-> "json", keys |-> JOB_TEMPLATE],
      [kind |-> "json", keys |-> (JOB_TEMPLATE \ {<<"job_title">>}) \cup {<<"title">>}] }

ResumeReplies ==
    { [kind |-> "api_error", keys |-> {}], [kind |-> "invalid_json", keys |-> {}],
      [kind |-> "json", keys |-> RESUME_TEMPLATE],
      [kind |-> "json", keys |-> RESUME_TEMPLATE \ {<<"achievements">>}] }

FinalReplies ==
    { [kind |-> "api_error", keys |-> {}, scoreKind |-> "number", score |-> 0],
      [kind |-> "invalid_json", keys |-> {}, scoreKind |-> "number", score |-> 0],
      [kind |-> "json", keys |-> ANALYSIS_TEMPLATE, scoreKind |-> "number", score |-> 87],
      [kind |-> "json", keys |-> ANALYSIS_TEMPLATE, scoreKind |-> "number", score |-> 40],
      [kind |-> "json", keys |-> ANALYSIS_TEMPLATE, scoreKind |-> "fraction_string", score |-> 87],
      [kind |-> "json", keys |-> ANALYSIS_TEMPLATE, scoreKind |-> "text", score |-> 0],
      [kind |-> "json", keys |-> {<<"verdict">>}, scoreKind |-> "number", score |-> 0] }

\* replies to the missing-skills and expand-skills prompts: a list of names
\* under the expected key
MissingReplies ==
    { [kind |-> "api_error", items |-> <<>>], [kind |-> "invalid_json", items |-> <<>>],
      [kind |-> "json", items |-> <<"sql">>] }

ExpandReplies ==
    { [kind |-> "api_error", items |-> <<>>], [kind |-> "invalid_json", items |-> <<>>],
      [kind |-> "json", items |-> <<>>],
      [kind |-> "json", items |-> <<"k8s", "k8s">>] }

\* a web search raises or returns its results
SearchReplies ==
    { [raised |-> TRUE, results |-> <<>>],
      [raised |-> FALSE, results |-> << [title |-> "Cert", url |-> "https://c/1"] >>] }

GoodCourse == [name |-> "Cert", platform |-> "Coursera", url |-> "https://c/1"]
NamelessCourse == [name |-> "", platform |-> "Udemy", url |-> "https://c/2"]

RankReplies ==
    { [kind |-> "api_error", items |-> <<>>], [kind |-> "invalid_json", items |-> <<>>],
      [kind |-> "json", items |-> <<NamelessCourse, GoodCourse>>] }

\* the call behind an LLM reply failed: it raised or its content is unusable
LlmFailed(reply) == reply.kind # "json"

----------------------------------------------------------------------------
(* Pure functions of the services *)

RECURSIVE SelectSeq2(_, _)
\* the elements of seq for which keep[i] holds, in order
SelectSeq2(seq, keep) ==
    IF seq = <<>> THEN <<>>
    ELSE LET rest == SelectSeq2(Tail(seq), Tail(keep))
         IN  IF Head(keep) THEN <<Head(seq)>> \o rest ELSE rest

\* (a slip: the name is compared as it is written)
LowerSuffixOf_CaseKept(name) ==
    CASE name = "cv.PDF" -> ".PDF"
      [] name = "cv.docx" -> ".docx"
      [] name = "cv.pdf.bak" -> ".bak"
      [] name = "cv" -> ""
      [] OTHER -> ".txt"

\* the prefix of url up to "://", and the lower-cased suffix of a file name
\* from its last dot, for the strings of JobUrls and FileNames
SchemeOf(url) ==
    CASE url = "https://jobs/1" -> "https://"
      [] url = "http://jobs/2" -> "http://"
      [] url = "HTTP://jobs/1" -> "HTTP://"
      [] url = "ftp://jobs/1" -> "ftp://"
      [] OTHER -> ""
LowerSuffixOf(name) ==
    CASE name = "cv.PDF" -> ".pdf"
      [] name = "cv.docx" -> ".docx"
      [] name = "cv.pdf.bak" -> ".bak"
      [] name = "cv" -> ""
      [] OTHER -> ".txt"

\* (a slip: only the empty URL is refused)
UrlIsValid_NonEmpty(url) == url # ""

\* job_parser.parse_job_from_url's check of the URL
UrlIsValid(url) == url # "" /\ SchemeOf(url) \in {"http://", "https://"}

\* resume_parser.parse_resume's check of the file name
FileIsSupported(name) == LowerSuffixOf(name) \in {".pdf", ".docx"}

\* (a slip: the exception is swallowed and the parsed-or-empty dict returned)
GetJobDetailsRaises_Swallowed(reply) == FALSE

\* get_job_details: json.loads(content); every exception is raised again
GetJobDetailsRaises(reply) == reply.kind # "json"
GetJobDetails(reply) == [keys |-> reply.keys]

\* get_resume_summary: the same
GetResumeSummaryRaises(reply) == reply.kind # "json"
GetResumeSummary(reply) == [keys |-> reply.keys]

\* the end of generate_candidate_analysis: json.loads(content), unguarded
FinalAnalysisRaises(reply) == reply.kind # "json"
FinalAnalysis(reply) ==
    [keys |-> reply.keys, scoreKind |-> reply.scoreKind, score |-> reply.score]

\* _extract_missing_skills_via_groq: the list under missing_skills, [] when
\* the content does not parse
ExtractMissing(reply) == IF reply.kind = "json" THEN reply.items ELSE <<>>

\* _expand_skills_via_groq: the list under items, the missing skills when
\* the content does not parse
ExpandSkills(reply, missing_skills) ==
    IF reply.kind = "json" THEN reply.items ELSE missing_skills

\* _rank_certifications_with_groq: the items with a name and a url, [] when
\* the content does not parse
RankCourses(reply) ==
    IF reply.kind = "json"
    THEN SelectSeq2(reply.items,
                    [i \in 1..Len(reply.items) |->
                        reply.items[i].name # "" /\ reply.items[i].url # ""])
    ELSE <<>>

\* (a slip: the expanded skills are sent in place of the missing ones)
FinalCallSkills_Expanded(r) == r.expanded

\* what the final prompt of generate_candidate_analysis is built from
FinalCallSkills(r) == r.missing
FinalCallCourses(r) == r.courses

\* template.get("overall_analysis", {}).get("overall_match_score", 0)
HasScore(tpl) == <<"overall_analysis", "overall_match_score">> \in tpl.keys
ScoreOf(tpl) == IF HasScore(tpl) THEN tpl.score ELSE 0
ScoreKindOf(tpl) == IF HasScore(tpl) THEN tpl.scoreKind ELSE "number"

\* _map_template_to_candidate_analysis raises when float() of the score does
MapRaises(tpl) == ScoreKindOf(tpl) = "text"

MapTemplate(tpl, resume_data, job_data) ==
    [targetRole |-> IF <<"job_title">> \in job_data.keys THEN "Engineer" ELSE "Target Role",
     jobMatchScore |-> ScoreOf(tpl),
     summary |-> "Analysis generated from your resume and the target role."]

\* int(doc["match_score"]) raises on a string that holds a fraction
IntRaises(kind) == kind = "fraction_string"


----------------------------------------------------------------------------
(* auth.py *)

Passwords == {"secret1"}

\* the passwords submitted to login
LoginPasswords == Passwords \cup {"guess99"}

\* A string in the password field of a user document: a bcrypt hash of a
\* password (the salt left out), or a password as it was typed.

\* (a slip: the password is stored as it was typed)
hash_password_Plain(password) == [scheme |-> "plain", of |-> password]

\* hash_password: a bcrypt hash of the password
hash_password(password) == [scheme |-> "bcrypt", of |-> password]

\* (a slip: any password is taken)
verify_password_Any(password, hashed) == TRUE

\* verify_password: bcrypt.checkpw, False when it raises (no valid hash)
verify_password(password, hashed) ==
    hashed.scheme = "bcrypt" /\ hashed.of = password

\* create_access_token: a signed payload that has not expired
create_access_token(email, role) == [valid |-> TRUE, sub |-> email, role |-> role]

\* the document register inserts
UserDoc(email, password) ==
    [email |-> email, password |-> hash_password(password),
     role |-> "candidate", is_active |-> TRUE]

\* register: find_one by email, 400 when a user exists, else insert_one
Register(email, password) ==
    /\ req.pc = "idle"
    /\ IF FindUser(email) # 0
       THEN /\ req' = Fail([req EXCEPT !.op = "register"], 400)
            /\ UNCHANGED users
       ELSE /\ users' = Append(users, UserDoc(email, password))
            /\ req' = Ended([req EXCEPT !.op = "register"],
                            [NoResp EXCEPT !.status = 201])
    /\ UNCHANGED <<registering, analyses, enhanced_resumes, interviews, files,
                   nextOid, nextUuid, clock, returned>>

\* register requests handled concurrently: a handler runs up to its next
\* await, so other handlers run between its find_one and its insert_one;
\* each of the two database operations is one step.

\* POST /auth/register arrives at a free handler
RegisterArrives(h, email, password) ==
    /\ registering[h].pc = "idle"
    /\ Len(users) + Cardinality({ g \in Handlers :
                        registering[g].pc \in {"find", "insert"} }) < MaxUsers
    /\ registering' = [registering EXCEPT
                         ![h] = [pc |-> "find", email |-> email,
                                 password |-> password, status |-> 0]]
    /\ UNCHANGED <<users, analyses, enhanced_resumes, interviews, files,
                   nextOid, nextUuid, clock, req, returned>>
\* existing = await users.find_one({"email": ..}); 400 if existing
RegisterFind(h) ==
    /\ registering[h].pc = "find"
    /\ registering' = [registering EXCEPT
                         ![h] = IF FindUser(registering[h].email) # 0
                                THEN [@ EXCEPT !.pc = "done", !.status = 400]
                                ELSE [@ EXCEPT !.pc = "insert"]]
    /\ UNCHANGED <<users, analyses, enhanced_resumes, interviews, files,
                   nextOid, nextUuid, clock, req, returned>>
\* await users.insert_one(doc); 201
RegisterInsert(h) ==
    /\ registering[h].pc = "insert"
    /\ users' = Append(users, UserDoc(registering[h].email, registering[h].password))
    /\ registering' = [registering EXCEPT ![h] = [@ EXCEPT !.pc = "done", !.status = 201]]
    /\ UNCHANGED <<analyses, enhanced_resumes, interviews, files,
                   nextOid, nextUuid, clock, req, returned>>
\* the response is sent
RegisterDone(h) ==
    /\ registering[h].pc = "done"
    /\ registering' = [registering EXCEPT ![h] = NoRegister]
    /\ UNCHANGED <<users, analyses, enhanced_resumes, interviews, files,
                   nextOid, nextUuid, clock, req, returned>>

\* login: find_one by email and verify_password, 400 when either fails,
\* else a token for the stored email and role
Login(email, password) ==
    /\ req.pc = "idle"
    /\ LET i == FindUser(email)
           r == [req EXCEPT !.op = "login"]
       IN  req' = IF i = 0 THEN Fail(r, 400)
                  ELSE IF ~verify_password(password, users[i].password) THEN Fail(r, 400)
                  ELSE Ended(r, [NoResp EXCEPT
                                   !.status = 200,
                                   !.access_token =
                                       create_access_token(users[i].email, users[i].role)])
    /\ UNCHANGED <<registering, users, analyses, enhanced_resumes, interviews, files,
                   nextOid, nextUuid, clock, returned>>

\* (a slip: the role of the payload is not looked at)
CurrentUser_NoRole(token) ==
    IF ~token.valid \/ token.sub = NoClaim
    THEN ""
    ELSE IF FindUser(token.sub) = 0 THEN "" ELSE users[FindUser(token.sub)].email

\* get_current_user: the email of the stored user the token names, "" when
\* the token is rejected
CurrentUser(token) ==
    IF ~token.valid \/ token.sub = NoClaim \/ token.role = NoClaim
    THEN ""
    ELSE IF FindUser(token.sub) = 0 THEN "" ELSE users[FindUser(token.sub)].email

\* The dependency get_current_user of every job-seeker endpoint: 401, or the
\* handler's body starts as the stored user.
Authenticate ==
    /\ req.pc = "auth"
    /\ req' = IF CurrentUser(req.token) = ""
              THEN Fail(req, 401)
              ELSE [req EXCEPT !.pc = "body", !.user = CurrentUser(req.token)]
    /\ UNCHANGED <<registering, users, analyses, enhanced_resumes, interviews, files,
                   nextOid, nextUuid, clock, returned>>

\* GET /auth/me arrives
StartMe(token) ==
    /\ req.pc = "idle"
    /\ req' = [Idle EXCEPT !.op = "me", !.pc = "auth", !.token = token]
    /\ UNCHANGED <<registering, users, analyses, enhanced_resumes, interviews, files,
                   nextOid, nextUuid, clock, returned>>
\* me returns the current user
Me ==
    /\ req.op = "me" /\ req.pc = "body"
    /\ req' = Ended(req, [NoResp EXCEPT !.status = 200, !.user = req.user])
    /\ UNCHANGED <<registering, users, analyses, enhanced_resumes, interviews, files,
                   nextOid, nextUuid, clock, returned>>
----------------------------------------------------------------------------
(* POST /job-seeker/analyze *)

\* the request arrives (cap: the documents analyses may hold)
StartAnalyze(token, job_url, filename, cap) ==
    /\ req.pc = "idle"
    /\ Len(analyses) < cap
    /\ req' = [Idle EXCEPT !.op = "analyze", !.pc = "auth", !.token = token,
                           !.job_url = job_url, !.filename = filename]
    /\ UNCHANGED <<registering, users, analyses, enhanced_resumes, interviews, files,
                   nextOid, nextUuid, clock, returned>>
\* analyze_resume up to the page fetch of parse_job_from_url
AnalyzeBegin ==
    /\ req.op = "analyze" /\ req.pc = "body"
    /\ req' = IF req.job_url = "" THEN Fail(req, 400)
              ELSE IF ~UrlIsValid(req.job_url)
              THEN Fail(EndStep(BeginStep(req, "parse_job"), FALSE), 500)
              ELSE Issue(BeginStep(req, "parse_job"), "fetch", req.job_url, <<>>, <<>>)
    /\ UNCHANGED <<registering, users, analyses, enhanced_resumes, interviews, files,
                   nextOid, nextUuid, clock, returned>>
\* fetch_webpage returns; on a 200 the text is extracted and get_job_details
\* calls the LLM
FetchReturn(ok) ==
    /\ req.pc = "fetch"
    /\ LET r == Returns(req, ok)
       IN  req' = IF ~ok THEN Fail(EndStep(r, FALSE), 500)
                  ELSE Issue(r, "llm_job", req.job_url, <<>>, <<>>)
    /\ UNCHANGED <<registering, users, analyses, enhanced_resumes, interviews, files,
                   nextOid, nextUuid, clock, returned>>
\* get_job_details returns and parse_job_from_url with it; then parse_resume
\* reads the file, checks its name, extracts its text (which may raise on a
\* damaged file) and get_resume_summary calls the LLM
JobLlmReturn(reply, readable) ==
    /\ req.pc = "llm_job"
    /\ LET r == Returns(req, ~LlmFailed(reply))
           j == BeginStep([EndStep(r, ~LlmFailed(reply))
                             EXCEPT !.job_data = GetJobDetails(reply)],
                          "parse_resume")
       IN  req' = IF GetJobDetailsRaises(reply) THEN Fail(EndStep(r, FALSE), 500)
                  ELSE IF ~FileIsSupported(req.filename) \/ ~readable
                  THEN Fail(EndStep(j, FALSE), 500)
                  ELSE Issue(j, "llm_resume", req.filename, <<>>, <<>>)
    /\ UNCHANGED <<registering, users, analyses, enhanced_resumes, interviews, files,
                   nextOid, nextUuid, clock, returned>>
\* get_resume_summary returns and parse_resume with it; then
\* generate_candidate_analysis starts: it needs the search API key
\* (RuntimeError without it, a 500 of the route) and calls the LLM for the
\* missing skills
ResumeLlmReturn(reply, tavily_key) ==
    /\ req.pc = "llm_resume"
    /\ LET r == Returns(req, ~LlmFailed(reply))
           a == BeginStep([EndStep(r, ~LlmFailed(reply))
                             EXCEPT !.resume_data = GetResumeSummary(reply)],
                          "analysis")
       IN  req' = IF GetResumeSummaryRaises(reply) THEN Fail(EndStep(r, FALSE), 500)
                  ELSE IF ~tavily_key THEN Fail(EndStep(a, FALSE), 500)
                  ELSE Issue(a, "llm_missing", "", <<>>, <<>>)
    /\ UNCHANGED <<registering, users, analyses, enhanced_resumes, interviews, files,
                   nextOid, nextUuid, clock, returned>>
----------------------------------------------------------------------------
(* generate_candidate_analysis, after its first call *)

\* (a slip: a search that raised is tried again)
NextSearchIdx_Retry(r, raised) == IF raised THEN r.idx ELSE r.idx + 1

\* _fetch_certifications_with_tavily's loop: the position in the expanded
\* skills of the search after the one that returned (raised: with an
\* exception)
NextSearchIdx(r, raised) == r.idx + 1

\* the search for the next expanded skill, or the ranking call when all are
\* searched
AfterSearch(r, raised) ==
    LET i == NextSearchIdx(r, raised)
    IN  IF i <= Len(r.expanded)
        THEN [Issue(r, "search", r.expanded[i], <<>>, <<>>) EXCEPT !.idx = i]
        ELSE [Issue(r, "llm_rank", "", r.missing, <<>>) EXCEPT !.idx = i]

\* _extract_missing_skills_via_groq returns; _expand_skills_via_groq calls
MissingReturn(reply) ==
    /\ req.pc = "llm_missing"
    /\ LET r == [Returns(req, ~LlmFailed(reply)) EXCEPT !.missing = ExtractMissing(reply)]
       IN  req' = IF reply.kind = "api_error" THEN Fail(EndStep(r, FALSE), 500)
                  ELSE Issue(r, "llm_expand", "", r.missing, <<>>)
    /\ UNCHANGED <<registering, users, analyses, enhanced_resumes, interviews, files,
                   nextOid, nextUuid, clock, returned>>
\* _expand_skills_via_groq returns; the searches start
ExpandReturn(reply) ==
    /\ req.pc = "llm_expand"
    /\ LET r == [Returns(req, ~LlmFailed(reply))
                   EXCEPT !.expanded = ExpandSkills(reply, req.missing), !.idx = 0]
       IN  req' = IF reply.kind = "api_error" THEN Fail(EndStep(r, FALSE), 500)
                  ELSE AfterSearch(r, FALSE)
    /\ UNCHANGED <<registering, users, analyses, enhanced_resumes, interviews, files,
                   nextOid, nextUuid, clock, returned>>
\* one search returns: its results are appended, an exception skips the
\* skill; then the next search or the ranking call
SearchReturn(reply) ==
    /\ req.pc = "search"
    /\ LET found == [i \in 1..Len(reply.results) |->
                        [skill |-> req.expanded[req.idx],
                         title |-> reply.results[i].title,
                         url |-> reply.results[i].url]]
           r == [Returns(req, ~reply.raised)
                   EXCEPT !.results = IF reply.raised THEN @ ELSE @ \o found]
       IN  req' = AfterSearch(r, reply.raised)
    /\ UNCHANGED <<registering, users, analyses, enhanced_resumes, interviews, files,
                   nextOid, nextUuid, clock, returned>>
\* _rank_certifications_with_groq returns; the final call is made
RankReturn(reply) ==
    /\ req.pc = "llm_rank"
    /\ LET r == [Returns(req, ~LlmFailed(reply)) EXCEPT !.courses = RankCourses(reply)]
       IN  req' = IF reply.kind = "api_error" THEN Fail(EndStep(r, FALSE), 500)
                  ELSE Issue(r, "llm_final", "", FinalCallSkills(r), FinalCallCourses(r))
    /\ UNCHANGED <<registering, users, analyses, enhanced_resumes, interviews, files,
                   nextOid, nextUuid, clock, returned>>
\* the final call returns and generate_candidate_analysis with it, its
\* locals gone; the route maps the template and goes to the database
FinalReturn(reply) ==
    /\ req.pc = "llm_final"
    /\ LET r == [Returns(req, ~LlmFailed(reply))
                   EXCEPT !.missing = <<>>, !.expanded = <<>>, !.idx = 0,
                          !.results = <<>>, !.courses = <<>>]
           tpl == FinalAnalysis(reply)
           m == BeginStep([EndStep(r, ~LlmFailed(reply)) EXCEPT !.template = tpl], "map")
       IN  req' = IF FinalAnalysisRaises(reply) THEN Fail(EndStep(r, FALSE), 500)
                  ELSE IF MapRaises(tpl) THEN Fail(EndStep(m, FALSE), 500)
                  ELSE [EndStep(m, TRUE)
                          EXCEPT !.pc = "insert",
                                 !.analysis = MapTemplate(tpl, req.resume_data, req.job_data)]
    /\ UNCHANGED <<registering, users, analyses, enhanced_resumes, interviews, files,
                   nextOid, nextUuid, clock, returned>>
\* (a slip: the owner is left empty)
AnalysisOwner_Blank(r) == ""

\* the document analyze_resume stores
AnalysisOwner(r) == r.user

AnalysisDoc(r, oid, t1, t2) ==
    [_id |-> oid, user_email |-> AnalysisOwner(r), job_url |-> r.job_url,
     job_data |-> r.job_data, resume_data |-> r.resume_data,
     analysis_template |-> r.template, candidate_analysis |-> r.analysis,
     match_score |-> ScoreOf(r.template), match_kind |-> ScoreKindOf(r.template),
     role |-> IF <<"job_title">> \in r.job_data.keys THEN "Engineer" ELSE "",
     created_at |-> t1, updated_at |-> t2]

\* insert_one into analyses, then the response; a database error and a
\* score that int() rejects are 500s, the latter after the insert.
\* created_at and updated_at are two reads of _now().
AnalyzeInsert(db_ok) ==
    /\ req.op = "analyze" /\ req.pc = "insert"
    /\ IF ~db_ok
       THEN /\ req' = Fail(EndStep(BeginStep(req, "insert"), FALSE), 500)
            /\ UNCHANGED <<analyses, nextOid, clock>>
       ELSE \E t1 \in Nows : \E t2 \in { t \in t1..MaxClock : t <= t1 + 1 } :
              LET doc == AnalysisDoc(req, nextOid, t1, t2)
                  r == EndStep(BeginStep(Inserted(req, "analyses", doc.user_email, doc._id),
                                         "insert"), TRUE)
              IN  /\ analyses' = Append(analyses, doc)
                  /\ nextOid' = nextOid + 1
                  /\ clock' = t2
                  /\ req' = IF IntRaises(doc.match_kind) THEN Fail(r, 500)
                            ELSE Ended(r, [NoResp EXCEPT !.status = 200,
                                             !.id = str(doc._id),
                                             !.analysis = req.analysis,
                                             !.template = req.template])
    /\ UNCHANGED <<registering, users, enhanced_resumes, interviews, files, nextUuid, returned>>


----------------------------------------------------------------------------
(* GET /job-seeker/analyses/{analysis_id} *)

\* the strings a client may send as an analysis id
IdStrings ==
    {NoStr} \cup { [hex |-> n, upper |-> b] : n \in 1..MaxHistory, b \in BOOLEAN }

StartGetAnalysis(token, analysis_id) ==
    /\ req.pc = "idle"
    /\ req' = [Idle EXCEPT !.op = "get_analysis", !.pc = "auth", !.token = token,
                           !.analysis_id = analysis_id]
    /\ UNCHANGED <<registering, users, analyses, enhanced_resumes, interviews, files,
                   nextOid, nextUuid, clock, returned>>
\* get_analysis: ObjectId() raises on a string that is no id (a 500), a
\* missing document is a 404, int() of a stored score may raise (a 500),
\* else the stored objects are returned
GetAnalysis ==
    /\ req.op = "get_analysis" /\ req.pc = "body"
    /\ LET i == FindAnalysisAs(ObjectId(req.analysis_id), req.user)
       IN  req' = IF ~ObjectIdValid(req.analysis_id) THEN Fail(req, 500)
                  ELSE IF i = 0 THEN Fail(req, 404)
                  ELSE IF IntRaises(analyses[i].match_kind) THEN Fail(req, 500)
                  ELSE Ended(req, [NoResp EXCEPT !.status = 200,
                                     !.id = str(analyses[i]._id),
                                     !.analysis = analyses[i].candidate_analysis,
                                     !.template = analyses[i].analysis_template])
    /\ UNCHANGED <<registering, users, analyses, enhanced_resumes, interviews, files,
                   nextOid, nextUuid, clock, returned>>
----------------------------------------------------------------------------
(* GET /job-seeker/analyses *)

\* .limit(20)
ListLimit == 20

\* (a slip: the sort runs from oldest to newest)
Newer_Oldest(a, b) == a.updated_at <= b.updated_at

\* .sort("updated_at", -1): a comes no later than b
Newer(a, b) == a.updated_at >= b.updated_at

RECURSIVE NewestFirst(_, _)
\* find(..).sort("updated_at", -1).limit(n) over the documents at the
\* positions S of analyses: the orders the cursor may yield them in (the
\* order of documents with equal updated_at is not determined)
NewestFirst(S, n) ==
    IF S = {} \/ n = 0 THEN {<<>>}
    ELSE UNION { { <<i>> \o rest : rest \in NewestFirst(S \ {i}, n - 1) } :
                 i \in { i \in S : \A j \in S : Newer(analyses[i], analyses[j]) } }

StartList(token) ==
    /\ req.pc = "idle"
    /\ req' = [Idle EXCEPT !.op = "list_analyses", !.pc = "auth", !.token = token]
    /\ UNCHANGED <<registering, users, analyses, enhanced_resumes, interviews, files,
                   nextOid, nextUuid, clock, returned>>
\* list_analyses: the caller's documents, newest first, 20 at most; int()
\* of a stored score may raise (a 500)
ListAnalyses ==
    /\ req.op = "list_analyses" /\ req.pc = "body"
    /\ LET mine == { i \in 1..Len(analyses) : analyses[i].user_email = req.user }
       IN  \E order \in NewestFirst(mine, ListLimit) :
             req' = IF \E k \in 1..Len(order) : IntRaises(analyses[order[k]].match_kind)
                    THEN Fail(req, 500)
                    ELSE Ended(req, [NoResp EXCEPT
                                       !.status = 200,
                                       !.listed =
                                           [k \in 1..Len(order) |->
                                              [id |-> str(analyses[order[k]]._id),
                                               updatedAt |-> analyses[order[k]].updated_at]]])
    /\ UNCHANGED <<registering, users, analyses, enhanced_resumes, interviews, files,
                   nextOid, nextUuid, clock, returned>>

----------------------------------------------------------------------------
(* POST /job-seeker/resume/enhance and resume_enhancer.py *)

TemplateIds == {"1", "9"}
\* _load_template_html: templates/1.html exists, templates/9.html does not
TemplateExists(template_id) == template_id = "1"

Htmls == {"", "<p>cv</p>", "<HTML>cv</HTML>"}
\* "<html" in html.lower()
HasHtmlTag(html) == html = "<HTML>cv</HTML>"

HtmlReplies ==
    { [kind |-> "api_error", html |-> ""], [kind |-> "invalid_json", html |-> ""] }
    \cup { [kind |-> "json", html |-> h] : h \in Htmls }

\* (a slip: the html is not looked at)
HtmlRaises_JsonOnly(reply) == reply.kind # "json"

\* _call_groq_generate_html raises on a failed call, on content that is not
\* JSON and on html that is empty or has no <html tag
HtmlRaises(reply) == reply.kind # "json" \/ reply.html = "" \/ ~HasHtmlTag(reply.html)

\* the PDF server's answers: requests.post raises (connection error,
\* timeout) or returns a status, a Content-Type and a body of so many bytes
PdfReplies ==
    { [raised |-> TRUE, status |-> 0, ctype |-> "", bytes |-> 0],
      [raised |-> FALSE, status |-> 200, ctype |-> "application/pdf", bytes |-> 1],
      [raised |-> FALSE, status |-> 200, ctype |-> "application/pdf", bytes |-> 0],
      [raised |-> FALSE, status |-> 200, ctype |-> "text/html", bytes |-> 1],
      [raised |-> FALSE, status |-> 500, ctype |-> "application/pdf", bytes |-> 1] }

\* Content-Type.startswith("application/pdf")
IsPdfType(ctype) == ctype = "application/pdf"

\* (a slip: the content type is not looked at)
PdfServerOk_AnyType(reply) == ~reply.raised /\ reply.status = 200

\* the server answered 200 with a PDF content type
PdfServerOk(reply) == ~reply.raised /\ reply.status = 200 /\ IsPdfType(reply.ctype)

\* _generate_pdf_via_puppeteer_api: the size of the body returned, -1 for None
PdfBytes(reply) == IF PdfServerOk(reply) THEN reply.bytes ELSE -1

\* "if pdf_bytes:" in generate_enhanced_resume: None and b"" are both false
PdfBytesTruthy(n) == n > 0

StartEnhance(token, analysis_id, template_id) ==
    /\ req.pc = "idle"
    /\ Len(enhanced_resumes) + Len(interviews) < MaxDerived
    /\ Cardinality(files) < MaxDerived
    /\ req' = [Idle EXCEPT !.op = "enhance", !.pc = "auth", !.token = token,
                           !.analysis_id = analysis_id, !.template_id = template_id]
    /\ UNCHANGED <<registering, users, analyses, enhanced_resumes, interviews, files,
                   nextOid, nextUuid, clock, returned>>
\* enhance_resume finds the analysis and calls generate_enhanced_resume with
\* return_pdf=True, which loads the template and calls the LLM
EnhanceBegin ==
    /\ req.op = "enhance" /\ req.pc = "body"
    /\ LET i == FindAnalysisAs(ObjectId(req.analysis_id), req.user)
       IN  req' = IF ~ObjectIdValid(req.analysis_id) THEN Fail(req, 500)
                  ELSE IF i = 0 THEN Fail(req, 404)
                  ELSE IF ~TemplateExists(req.template_id) THEN Fail(req, 500)
                  ELSE [Issue(req, "llm_html", req.template_id, <<>>, <<>>)
                          EXCEPT !.doc = analyses[i], !.return_pdf = TRUE]
    /\ UNCHANGED <<registering, users, analyses, enhanced_resumes, interviews, files,
                   nextOid, nextUuid, clock, returned>>
\* _call_groq_generate_html returns; with return_pdf the HTML is posted to
\* the PDF server
HtmlReturn(reply) ==
    /\ req.pc = "llm_html"
    /\ LET r == Returns(req, ~HtmlRaises(reply))
       IN  req' = IF HtmlRaises(reply)
                  THEN Raise(r, IF reply.kind = "json" THEN "ValueError" ELSE "Exception")
                  ELSE IF req.return_pdf
                  THEN [Issue(r, "pdf_post", reply.html, <<>>, <<>>) EXCEPT !.html = reply.html]
                  ELSE [r EXCEPT !.pc = "insert", !.html = reply.html]
    /\ UNCHANGED <<registering, users, analyses, enhanced_resumes, interviews, files,
                   nextOid, nextUuid, clock, returned>>
\* the PDF server answers; a body that is kept is written to
\* Resumes/resume-<uuid>.pdf (the write may raise: a 500 of the route);
\* generate_enhanced_resume returns
PdfReturn(reply, write_ok) ==
    /\ req.pc = "pdf_post"
    /\ LET r == [Returns(req, PdfServerOk(reply)) EXCEPT !.pdf_reply = reply]
           path == [dir |-> "Resumes", uuid |-> nextUuid]
       IN  IF PdfBytesTruthy(PdfBytes(reply))
           THEN IF write_ok
                THEN /\ files' = files \cup {path}
                     /\ nextUuid' = nextUuid + 1
                     /\ req' = [r EXCEPT !.pc = "insert", !.pdf_path = path]
                ELSE /\ req' = Raise(r, "OSError")
                     /\ UNCHANGED <<files, nextUuid>>
           ELSE /\ req' = [r EXCEPT !.pc = "insert", !.pdf_path = NoPath]
                /\ UNCHANGED <<files, nextUuid>>
    /\ UNCHANGED <<registering, users, analyses, enhanced_resumes, interviews,
                   nextOid, clock, returned>>

EnhancedOwner(r) == r.user

\* insert_one into enhanced_resumes, then the response
EnhanceInsert(db_ok) ==
    /\ req.op = "enhance" /\ req.pc = "insert"
    /\ IF ~db_ok
       THEN /\ req' = Fail(req, 500)
            /\ UNCHANGED <<enhanced_resumes, nextOid, clock>>
       ELSE \E t \in Nows :
              LET doc == [_id |-> nextOid, user_email |-> EnhancedOwner(req),
                          analysis_id |-> str(req.doc._id),
                          template_id |-> req.template_id, html |-> req.html,
                          pdf_path |-> req.pdf_path, created_at |-> t]
              IN  /\ enhanced_resumes' = Append(enhanced_resumes, doc)
                  /\ nextOid' = nextOid + 1
                  /\ clock' = t
                  /\ req' = Ended(Inserted(req, "enhanced_resumes", doc.user_email, doc._id),
                                  [NoResp EXCEPT !.status = 200,
                                     !.html = req.html,
                                     !.pdf_path = req.pdf_path,
                                     !.pdf_url = req.pdf_path.uuid])
    /\ UNCHANGED <<registering, users, analyses, interviews, files, nextUuid, returned>>

----------------------------------------------------------------------------
(* POST /job-seeker/interview/generate and interview_prep.py *)

\* replies to the questions and answers prompts: "items" is a list of
\* strings, or is no list
ListReplies(texts) ==
    { [kind |-> "api_error", items |-> <<>>], [kind |-> "invalid_json", items |-> <<>>],
      [kind |-> "not_list", items |-> <<>>] }
    \cup { [kind |-> "json", items |-> l] : l \in texts }

QuestionLists == { <<"q1">>, <<"q1", "q2">> }
AnswerLists == { <<"a1">>, <<"a2", "a1">> }

\* generate_interview_questions and generate_interview_answers raise on a
\* failed call, on content that is not JSON, on items that is no list
ItemsRaises(reply) == reply.kind # "json"
\* and return [str(x) for x in items] otherwise
ItemsOf(reply) == reply.items

\* (a slip: only the first question is passed on)
AnswersCallQuestions_First(r) == SubSeq(r.questions, 1, 1)

\* what generate_interview passes to generate_interview_answers
AnswersCallQuestions(r) == r.questions

\* the items of an interview: each question with its answer, "" when the
\* answers run out
InterviewItems(questions, answers) ==
    [i \in 1..Len(questions) |->
        [question |-> questions[i],
         answer |-> IF i <= Len(answers) THEN answers[i] ELSE ""]]

StartInterview(token, analysis_id) ==
    /\ req.pc = "idle"
    /\ Len(enhanced_resumes) + Len(interviews) < MaxDerived
    /\ req' = [Idle EXCEPT !.op = "interview", !.pc = "auth", !.token = token,
                           !.analysis_id = analysis_id]
    /\ UNCHANGED <<registering, users, analyses, enhanced_resumes, interviews, files,
                   nextOid, nextUuid, clock, returned>>
\* generate_interview finds the analysis and asks for the questions
InterviewBegin ==
    /\ req.op = "interview" /\ req.pc = "body"
    /\ LET i == FindAnalysisAs(ObjectId(req.analysis_id), req.user)
       IN  req' = IF ~ObjectIdValid(req.analysis_id) THEN Fail(req, 500)
                  ELSE IF i = 0 THEN Fail(req, 404)
                  ELSE [Issue(req, "llm_questions", "", <<>>, <<>>)
                          EXCEPT !.doc = analyses[i]]
    /\ UNCHANGED <<registering, users, analyses, enhanced_resumes, interviews, files,
                   nextOid, nextUuid, clock, returned>>
\* the questions arrive; the answers are asked for
QuestionsReturn(reply) ==
    /\ req.pc = "llm_questions"
    /\ LET r == [Returns(req, ~ItemsRaises(reply)) EXCEPT !.questions = ItemsOf(reply)]
       IN  req' = IF ItemsRaises(reply) THEN Fail(r, 500)
                  ELSE Issue(r, "llm_answers", "", AnswersCallQuestions(r), <<>>)
    /\ UNCHANGED <<registering, users, analyses, enhanced_resumes, interviews, files,
                   nextOid, nextUuid, clock, returned>>
\* the answers arrive
AnswersReturn(reply) ==
    /\ req.pc = "llm_answers"
    /\ LET r == [Returns(req, ~ItemsRaises(reply)) EXCEPT !.answers = ItemsOf(reply)]
       IN  req' = IF ItemsRaises(reply) THEN Fail(r, 500)
                  ELSE [r EXCEPT !.pc = "insert"]
    /\ UNCHANGED <<registering, users, analyses, enhanced_resumes, interviews, files,
                   nextOid, nextUuid, clock, returned>>
InterviewOwner(r) == r.user

\* insert_one into interviews, then the response
InterviewInsert(db_ok) ==
    /\ req.op = "interview" /\ req.pc = "insert"
    /\ IF ~db_ok
       THEN /\ req' = Fail(req, 500)
            /\ UNCHANGED <<interviews, nextOid, clock>>
       ELSE \E t \in Nows :
              LET items == InterviewItems(req.questions, req.answers)
                  doc == [_id |-> nextOid, user_email |-> InterviewOwner(req),
                          analysis_id |-> req.analysis_id,
                          items |-> items, created_at |-> t]
              IN  /\ interviews' = Append(interviews, doc)
                  /\ nextOid' = nextOid + 1
                  /\ clock' = t
                  /\ req' = Ended(Inserted(req, "interviews", doc.user_email, doc._id),
                                  [NoResp EXCEPT !.status = 200, !.items = items])
    /\ UNCHANGED <<registering, users, analyses, enhanced_resumes, files, nextUuid, returned>>

----------------------------------------------------------------------------
(* GET /job-seeker/history *)

RECURSIVE LatestCreatedFirst(_)
\* find(..).sort("created_at", -1) over the documents at the positions S of
\* analyses: the orders the cursor may yield them in
LatestCreatedFirst(S) ==
    IF S = {} THEN {<<>>}
    ELSE UNION { { <<i>> \o rest : rest \in LatestCreatedFirst(S \ {i}) } :
                 i \in { i \in S : \A j \in S :
                           analyses[i].created_at >= analyses[j].created_at } }

\* the analysis_id strings of the caller's documents of a collection
AnalysisIdsOf(coll, email) ==
    { coll[k].analysis_id : k \in { k \in 1..Len(coll) : coll[k].user_email = email } }

StartHistory(token) ==
    /\ req.pc = "idle"
    /\ req' = [Idle EXCEPT !.op = "history", !.pc = "auth", !.token = token]
    /\ UNCHANGED <<registering, users, analyses, enhanced_resumes, interviews, files,
                   nextOid, nextUuid, clock, returned>>
\* history: one item for each analysis of the caller, latest first, with
\* the flags str(_id) in enhanced_ids and str(_id) in interview_ids; int()
\* of a stored score may raise (a 500)
History ==
    /\ req.op = "history" /\ req.pc = "body"
    /\ LET mine == { i \in 1..Len(analyses) : analyses[i].user_email = req.user }
           enhanced_ids == AnalysisIdsOf(enhanced_resumes, req.user)
           interview_ids == AnalysisIdsOf(interviews, req.user)
       IN  \E order \in LatestCreatedFirst(mine) :
             req' = IF \E k \in 1..Len(order) : IntRaises(analyses[order[k]].match_kind)
                    THEN Fail(req, 500)
                    ELSE Ended(req, [NoResp EXCEPT
                           !.status = 200,
                           !.listed =
                              [k \in 1..Len(order) |->
                                 [id |-> str(analyses[order[k]]._id),
                                  hasInterviewPack |->
                                      str(analyses[order[k]]._id) \in interview_ids,
                                  hasEnhancedResume |->
                                      str(analyses[order[k]]._id) \in enhanced_ids]]])
    /\ UNCHANGED <<registering, users, analyses, enhanced_resumes, interviews, files,
                   nextOid, nextUuid, clock, returned>>

----------------------------------------------------------------------------
(* The service functions called directly *)

\* a call of a service function: pc "called" is its first statement
Call(op) == [Idle EXCEPT !.op = op, !.pc = "called"]

\* the function returns this value to its caller (who knows its arguments)
Return(r, resp) ==
    [Ended(r, resp) EXCEPT !.job_url = r.job_url, !.filename = r.filename,
                           !.template_id = r.template_id, !.return_pdf = r.return_pdf]

\* parse_job_from_url(url) is called
CallParseJob(url) ==
    /\ req.pc = "idle"
    /\ req' = [Call("parse_job_from_url") EXCEPT !.job_url = url]
    /\ UNCHANGED <<registering, users, analyses, enhanced_resumes, interviews, files,
                   nextOid, nextUuid, clock, returned>>
\* parse_job_from_url checks the URL and fetches the page
ParseJobBegin ==
    /\ req.op = "parse_job_from_url" /\ req.pc = "called"
    /\ req' = IF ~UrlIsValid(req.job_url) THEN Raise(req, "ValueError")
              ELSE Issue(req, "fetch", req.job_url, <<>>, <<>>)
    /\ UNCHANGED <<registering, users, analyses, enhanced_resumes, interviews, files,
                   nextOid, nextUuid, clock, returned>>
\* fetch_webpage returns or raises; get_job_details calls the LLM
ParseJobFetched(ok) ==
    /\ req.op = "parse_job_from_url" /\ req.pc = "fetch"
    /\ LET r == Returns(req, ok)
       IN  req' = IF ~ok THEN Raise(r, "Exception")
                  ELSE Issue(r, "llm_job", req.job_url, <<>>, <<>>)
    /\ UNCHANGED <<registering, users, analyses, enhanced_resumes, interviews, files,
                   nextOid, nextUuid, clock, returned>>
\* get_job_details returns or raises, and parse_job_from_url with it
ParseJobParsed(reply) ==
    /\ req.op = "parse_job_from_url" /\ req.pc = "llm_job"
    /\ LET r == Returns(req, ~LlmFailed(reply))
       IN  req' = IF GetJobDetailsRaises(reply) THEN Raise(r, "Exception")
                  ELSE Return(r, [NoResp EXCEPT !.parsed = GetJobDetails(reply)])
    /\ UNCHANGED <<registering, users, analyses, enhanced_resumes, interviews, files,
                   nextOid, nextUuid, clock, returned>>

\* parse_resume(file) is called; readable: the text of the file can be
\* extracted
CallParseResume(filename) ==
    /\ req.pc = "idle"
    /\ req' = [Call("parse_resume") EXCEPT !.filename = filename]
    /\ UNCHANGED <<registering, users, analyses, enhanced_resumes, interviews, files,
                   nextOid, nextUuid, clock, returned>>
\* parse_resume reads the file, checks its name, extracts the text and
\* get_resume_summary calls the LLM
ParseResumeBegin(readable) ==
    /\ req.op = "parse_resume" /\ req.pc = "called"
    /\ req' = IF ~FileIsSupported(req.filename) THEN Raise(req, "ValueError")
              ELSE IF ~readable THEN Raise(req, "Exception")
              ELSE Issue(req, "llm_resume", req.filename, <<>>, <<>>)
    /\ UNCHANGED <<registering, users, analyses, enhanced_resumes, interviews, files,
                   nextOid, nextUuid, clock, returned>>
\* get_resume_summary returns or raises, and parse_resume with it
ParseResumeParsed(reply) ==
    /\ req.op = "parse_resume" /\ req.pc = "llm_resume"
    /\ LET r == Returns(req, ~LlmFailed(reply))
       IN  req' = IF GetResumeSummaryRaises(reply) THEN Raise(r, "Exception")
                  ELSE Return(r, [NoResp EXCEPT !.parsed = GetResumeSummary(reply)])
    /\ UNCHANGED <<registering, users, analyses, enhanced_resumes, interviews, files,
                   nextOid, nextUuid, clock, returned>>

\* generate_enhanced_resume(.., template_id, return_pdf) is called
CallEnhancer(template_id, return_pdf) ==
    /\ req.pc = "idle"
    /\ Cardinality(files) < MaxFiles
    /\ req' = [Call("generate_enhanced_resume")
                 EXCEPT !.template_id = template_id, !.return_pdf = return_pdf]
    /\ UNCHANGED <<registering, users, analyses, enhanced_resumes, interviews, files,
                   nextOid, nextUuid, clock, returned>>
\* generate_enhanced_resume loads the template and calls the LLM
EnhancerBegin ==
    /\ req.op = "generate_enhanced_resume" /\ req.pc = "called"
    /\ req' = IF ~TemplateExists(req.template_id) THEN Raise(req, "FileNotFoundError")
              ELSE Issue(req, "llm_html", req.template_id, <<>>, <<>>)
    /\ UNCHANGED <<registering, users, analyses, enhanced_resumes, interviews, files,
                   nextOid, nextUuid, clock, returned>>
\* generate_enhanced_resume returns its result
EnhancerReturns ==
    /\ req.op = "generate_enhanced_resume" /\ req.pc = "insert"
    /\ req' = Return(req, [NoResp EXCEPT !.html = req.html, !.pdf_path = req.pdf_path])
    /\ UNCHANGED <<registering, users, analyses, enhanced_resumes, interviews, files,
                   nextOid, nextUuid, clock, returned>>

----------------------------------------------------------------------------
(* The client takes the response *)

\* what the client keeps of a successful analyze: the id and the objects
Finish ==
    /\ req.pc = "done"
    /\ returned' = IF req.op = "analyze" /\ req.resp.status = 200
                   THEN Append(returned, [id |-> req.resp.id, user |-> req.user,
                                          analysis |-> req.resp.analysis,
                                          template |-> req.resp.template])
                   ELSE returned
    /\ req' = Idle
    /\ UNCHANGED <<registering, users, analyses, enhanced_resumes, interviews, files,
                   nextOid, nextUuid, clock>>

----------------------------------------------------------------------------

\* the replies in the shape the prompt asked for, and the failed calls
Strict(replies, template) ==
    { reply \in replies : reply.kind = "api_error"
                          \/ (reply.kind = "json" /\ MatchesTemplate(reply.keys, template)) }
StrictItems(replies) ==
    { reply \in replies : reply.kind = "api_error"
                          \/ (reply.kind = "json" /\ reply.items # <<>>) }

\* The steps of the system.  any: the LLM may reply anything (else it
\* replies in the shape asked for, or the call fails); cap: the documents
\* analyses may hold.
Steps(any, cap) ==
    \/ \E e \in Emails, p \in Passwords : Register(e, p)
    \/ \E e \in Emails, p \in LoginPasswords : Login(e, p)
    \/ Authenticate
    \/ \E t \in Tokens : StartMe(t)
    \/ Me
    \/ \E t \in Tokens, u \in JobUrls, f \in FileNames : StartAnalyze(t, u, f, cap)
    \/ AnalyzeBegin
    \/ \E ok \in BOOLEAN : FetchReturn(ok)
    \/ \E reply \in IF any THEN JobReplies ELSE Strict(JobReplies, JOB_TEMPLATE),
          readable \in BOOLEAN : JobLlmReturn(reply, readable)
    \/ \E reply \in IF any THEN ResumeReplies ELSE Strict(ResumeReplies, RESUME_TEMPLATE),
          key \in BOOLEAN : ResumeLlmReturn(reply, key)
    \/ \E reply \in IF any THEN MissingReplies ELSE StrictItems(MissingReplies) :
          MissingReturn(reply)
    \/ \E reply \in IF any THEN ExpandReplies ELSE StrictItems(ExpandReplies) :
          ExpandReturn(reply)
    \/ \E reply \in SearchReplies : SearchReturn(reply)
    \/ \E reply \in IF any THEN RankReplies ELSE StrictItems(RankReplies) :
          RankReturn(reply)
    \/ \E reply \in IF any THEN FinalReplies ELSE Strict(FinalReplies, ANALYSIS_TEMPLATE) :
          FinalReturn(reply)
    \/ \E ok \in BOOLEAN : AnalyzeInsert(ok)
    \/ \E t \in Tokens, a \in IdStrings : StartGetAnalysis(t, a)
    \/ GetAnalysis
    \/ \E t \in Tokens : StartList(t)
    \/ ListAnalyses
    \/ \E t \in Tokens : StartHistory(t)
    \/ History
    \/ \E t \in Tokens, a \in IdStrings, tid \in TemplateIds : StartEnhance(t, a, tid)
    \/ EnhanceBegin
    \/ \E reply \in HtmlReplies : HtmlReturn(reply)
    \/ \E reply \in PdfReplies, ok \in BOOLEAN : PdfReturn(reply, ok)
    \/ \E ok \in BOOLEAN : EnhanceInsert(ok)
    \/ \E t \in Tokens, a \in IdStrings : StartInterview(t, a)
    \/ InterviewBegin
    \/ \E reply \in IF any THEN ListReplies(QuestionLists)
                           ELSE StrictItems(ListReplies(QuestionLists)) :
          QuestionsReturn(reply)
    \/ \E reply \in IF any THEN ListReplies(AnswerLists)
                           ELSE StrictItems(ListReplies(AnswerLists)) :
          AnswersReturn(reply)
    \/ \E ok \in BOOLEAN : InterviewInsert(ok)
    \/ Finish

\* one analysis, the services replying anything
Next == Steps(TRUE, MaxAnalyses)
Spec == Init /\ [][Next]_vars

\* a longer history, the LLM replying in the shapes asked for
NextHistory == Steps(FALSE, MaxHistory)
SpecHistory == Init /\ [][NextHistory]_vars

\* The analyses collection after n successful analyze requests in the
\* shapes asked for: every stride-th by bob and the others by ann, tie
\* requests within one tick of the clock, and the first with its score
\* written as a fraction string when frac.
StoredAnalysis(i, stride, tie, frac) ==
    LET owner == IF stride > 0 /\ i % stride = 0 THEN "bob@x.io" ELSE "ann@x.io"
        tpl == [keys |-> ANALYSIS_TEMPLATE,
                scoreKind |-> IF frac /\ i = 1 THEN "fraction_string" ELSE "number",
                score |-> 87]
        r == [Idle EXCEPT !.user = owner, !.job_url = "https://jobs/1",
                          !.job_data = [keys |-> JOB_TEMPLATE],
                          !.resume_data = [keys |-> RESUME_TEMPLATE],
                          !.template = tpl,
                          !.analysis = MapTemplate(tpl, [keys |-> RESUME_TEMPLATE],
                                                   [keys |-> JOB_TEMPLATE])]
    IN  AnalysisDoc(r, i, i \div tie, i \div tie)

InitList ==
    \E n \in 0..MaxListed, stride \in {0, 3, MaxListed}, tie \in {1, 2}, frac \in BOOLEAN :
        /\ users = [i \in 1..2 |->
                      [email |-> IF i = 1 THEN "ann@x.io" ELSE "bob@x.io",
                       password |-> hash_password("secret1"),
                       role |-> "candidate", is_active |-> TRUE]]
        /\ analyses = [i \in 1..n |-> StoredAnalysis(i, stride, tie, frac)]
        /\ enhanced_resumes = <<>>
        /\ interviews = <<>>
        /\ files = {}
        /\ nextOid = n + 1
        /\ nextUuid = 1
        /\ clock = n \div tie
        /\ req = Idle
        /\ returned = <<>>
        /\ registering = [h \in Handlers |-> NoRegister]

\* list_analyses on collections of every size up to MaxListed
NextList ==
    \/ \E t \in Tokens : StartList(t)
    \/ Authenticate
    \/ ListAnalyses
    \/ Finish
SpecList == InitList /\ [][NextList]_vars

\* register requests in any interleaving
NextRegister ==
    \/ \E h \in Handlers, e \in Emails, p \in Passwords : RegisterArrives(h, e, p)
    \/ \E h \in Handlers : RegisterFind(h)
    \/ \E h \in Handlers : RegisterInsert(h)
    \/ \E h \in Handlers : RegisterDone(h)
SpecRegister == Init /\ [][NextRegister]_vars

\* the service functions called directly, one call at a time
NextServices ==
    \/ \E url \in JobUrls \cup {"HTTP://jobs/1", "http://jobs/2"} : CallParseJob(url)
    \/ ParseJobBegin
    \/ \E ok \in BOOLEAN : ParseJobFetched(ok)
    \/ \E reply \in JobReplies : ParseJobParsed(reply)
    \/ \E f \in FileNames \cup {"cv.pdf.bak", "cv"} : CallParseResume(f)
    \/ \E readable \in BOOLEAN : ParseResumeBegin(readable)
    \/ \E reply \in ResumeReplies : ParseResumeParsed(reply)
    \/ \E tid \in TemplateIds, rp \in BOOLEAN : CallEnhancer(tid, rp)
    \/ EnhancerBegin
    \/ \E reply \in HtmlReplies : HtmlReturn(reply)
    \/ \E reply \in PdfReplies, ok \in BOOLEAN : PdfReturn(reply, ok)
    \/ EnhancerReturns
    \/ Finish
SpecServices == Init /\ [][NextServices]_vars


----------------------------------------------------------------------------
(* Properties *)

AnalysisStages == <<"llm_missing", "llm_expand", "search", "llm_rank", "llm_final">>
StageNo(k) == CHOOSE i \in 1..Len(AnalysisStages) : AnalysisStages[i] = k
AnalysisKinds == { AnalysisStages[i] : i \in 1..Len(AnalysisStages) }
InFlight(k) == req.calls[k] - req.rets[k]

\* C1: in generate_candidate_analysis the external calls are made in the
\* order missing skills, expanded skills, searches, ranking, final analysis:
\* a stage has been called only when every earlier stage was called and has
\* returned (each LLM stage once), at most one call is in flight, no later
\* stage was called while an earlier one is in flight; and the final call is
\* given the missing skills and the ranked courses the earlier stages made.
C1_CallsInOrder ==
    /\ \A k \in AnalysisKinds :
          /\ InFlight(k) \in {0, 1}
          /\ InFlight(k) = 1 <=> req.pc = k
          /\ req.calls[k] > 0 =>
                \A j \in AnalysisKinds : StageNo(j) < StageNo(k) =>
                    /\ InFlight(j) = 0
                    /\ j # "search" => req.calls[j] = 1
          /\ req.pc = k =>
                \A j \in AnalysisKinds : StageNo(j) > StageNo(k) => req.calls[j] = 0
    /\ req.pc = "llm_final" =>
          /\ req.sent.list = req.missing
          /\ req.sent.courses = req.courses

C1_Witness ==
    /\ req.pc = "llm_final"
    /\ req.calls["search"] = 2 /\ req.rets["search"] = 2
    /\ req.sent.list = <<"sql">>
    /\ req.sent.courses = <<GoodCourse>>

\* generate_candidate_analysis has returned to analyze_resume
AnalysisReturned ==
    /\ req.op = "analyze" /\ Len(req.steps) >= 3
    /\ req.steps[3].status = "ok"
    /\ req.pc = "insert"

\* C2: whenever generate_candidate_analysis returns (the final reply being
\* valid JSON), what it returns has exactly the keys of ANALYSIS_TEMPLATE.
C2_ReturnsTemplateShape ==
    AnalysisReturned => MatchesTemplate(req.template.keys, ANALYSIS_TEMPLATE)

\* parse_job_from_url, resp. parse_resume, has returned to analyze_resume
JobParsed ==
    req.op = "analyze" /\ req.pc # "done" /\ Len(req.steps) >= 1 /\ req.steps[1].status = "ok"
ResumeParsed ==
    req.op = "analyze" /\ req.pc # "done" /\ Len(req.steps) >= 2 /\ req.steps[2].status = "ok"

\* C3: whenever parse_job_from_url returns, what it returns has exactly the
\* keys of JOB_TEMPLATE, and whenever parse_resume returns, exactly the keys
\* of RESUME_TEMPLATE.
C3_ParsersReturnTemplateShape ==
    /\ JobParsed => MatchesTemplate(req.job_data.keys, JOB_TEMPLATE)
    /\ ResumeParsed => MatchesTemplate(req.resume_data.keys, RESUME_TEMPLATE)

\* C4, as claimed: no call is issued that failed before in the request (the
\* same kind of call with the same argument), and each LLM stage is called
\* at most once.
C4_FailedCallNotReissued ==
    /\ req.pc \in CallKinds => <<req.pc, req.call_arg>> \notin req.failed
    /\ \A k \in CallKinds \ {"search", "fetch", "pdf_post"} : req.calls[k] <= 1

\* C4, amended: the page fetch, the PDF call and each LLM stage are issued
\* at most once in a request, and the search is issued once for each entry
\* of the expanded skills, in order, whatever the earlier searches did: the
\* searches issued so far are as many as the entries reached.
C4_NoRetry ==
    /\ \A k \in CallKinds \ {"search"} : req.calls[k] <= 1
    /\ req.pc = "search" => req.calls["search"] = req.idx /\ req.idx <= Len(req.expanded)
    /\ req.pc = "llm_rank" => req.calls["search"] = Len(req.expanded)

C4_Witness ==
    /\ req.pc = "llm_rank"
    /\ <<"search", "k8s">> \in req.failed
    /\ req.calls["search"] = 2

CollectionOf(op) ==
    CASE op = "analyze" -> "analyses"
      [] op = "enhance" -> "enhanced_resumes"
      [] op = "interview" -> "interviews"
      [] OTHER -> ""

DocsOf(coll) ==
    CASE coll = "analyses" -> { [oid |-> analyses[i]._id, email |-> analyses[i].user_email] :
                                   i \in 1..Len(analyses) }
      [] coll = "enhanced_resumes" ->
            { [oid |-> enhanced_resumes[i]._id, email |-> enhanced_resumes[i].user_email] :
                i \in 1..Len(enhanced_resumes) }
      [] coll = "interviews" ->
            { [oid |-> interviews[i]._id, email |-> interviews[i].user_email] :
                i \in 1..Len(interviews) }
      [] OTHER -> {}

Succeeded(op) == req.op = op /\ req.pc = "done" /\ req.resp.status = 200

\* C5: a successful response of analyze, enhance_resume or generate_interview
\* comes after exactly one insert of the request, into analyses,
\* enhanced_resumes resp. interviews, of a document that is in the
\* collection and whose user_email is the authenticated caller's email.
C5_OneInsertPerSuccess ==
    \A op \in {"analyze", "enhance", "interview"} :
        Succeeded(op) =>
            /\ Len(req.ins) = 1
            /\ req.ins[1].coll = CollectionOf(op)
            /\ req.user \in Emails
            /\ req.ins[1].email = req.user
            /\ [oid |-> req.ins[1].oid, email |-> req.user] \in DocsOf(CollectionOf(op))

C5_Witness ==
    /\ Succeeded("analyze")
    /\ req.user = "bob@x.io"
    /\ Len(analyses) = 1 /\ analyses[1].user_email = "bob@x.io"

AnalyzeOrder == <<"parse_job", "parse_resume", "analysis", "map", "insert">>

\* C6: analyze runs job parsing, resume parsing, candidate analysis, mapping
\* and insert in this order; a step has begun only when every step before it
\* has ended without raising, so that after a failed step none runs.
C6_StepsInOrder ==
    req.op = "analyze" =>
        /\ Len(req.steps) <= Len(AnalyzeOrder)
        /\ \A i \in 1..Len(req.steps) :
              /\ req.steps[i].name = AnalyzeOrder[i]
              /\ i < Len(req.steps) => req.steps[i].status = "ok"
        /\ Succeeded("analyze") =>
              /\ Len(req.steps) = Len(AnalyzeOrder)
              /\ req.steps[Len(req.steps)].status = "ok"

C6_Witness ==
    /\ req.op = "analyze" /\ req.pc = "done" /\ req.resp.status = 500
    /\ Len(req.steps) = 4 /\ req.steps[4].status = "failed"
    /\ analyses = <<>>

\* C7: get_analysis, given by the same user an id that a successful analyze
\* returned, answers 200 with the analysis and the template analyze
\* returned, whatever was done in between.
C7_RoundTrip ==
    (req.op = "get_analysis" /\ req.pc = "done") =>
        \A i \in 1..Len(returned) :
            (returned[i].id = req.analysis_id /\ returned[i].user = req.user) =>
                /\ req.resp.status = 200
                /\ req.resp.analysis = returned[i].analysis
                /\ req.resp.template = returned[i].template

C7_Witness ==
    /\ req.op = "get_analysis" /\ req.pc = "done" /\ req.resp.status = 200
    /\ Len(returned) = 2
    /\ returned[1].user = returned[2].user
    /\ returned[1].template # returned[2].template
    /\ returned[2].id = req.analysis_id /\ returned[2].user = req.user

QuestionsFailed == <<"llm_questions", "">> \in req.failed

EnhancerReturned == req.op = "enhance" /\ req.pc = "insert" /\ req.return_pdf

\* C10, as claimed: pdf_path is a path exactly when the PDF server answered
\* 200 with an application/pdf content type, and None otherwise.
C10_PathIffServerOk ==
    EnhancerReturned =>
        (req.pdf_path # NoPath <=>
            (~req.pdf_reply.raised /\ req.pdf_reply.status = 200
             /\ req.pdf_reply.ctype = "application/pdf"))

\* C10, amended: generate_enhanced_resume returns the html and a pdf_path
\* that is the path of a file written under Resumes exactly when the PDF
\* server answered 200 with an application/pdf content type and a body that
\* is not empty, and None otherwise.
C10_PathIffPdfBody ==
    EnhancerReturned =>
        /\ HasHtmlTag(req.html)
        /\ req.pdf_path # NoPath <=>
              (~req.pdf_reply.raised /\ req.pdf_reply.status = 200
               /\ req.pdf_reply.ctype = "application/pdf" /\ req.pdf_reply.bytes > 0)
        /\ req.pdf_path # NoPath => req.pdf_path.dir = "Resumes" /\ req.pdf_path \in files

C10_Witness ==
    /\ EnhancerReturned
    /\ req.pdf_path \in files
    /\ req.pdf_reply.status = 200

\* the strings of Htmls that contain "<html", in any case
ContainsHtmlTag(html) == html \in {"<HTML>cv</HTML>"}
NoCallMade(r) == \A k \in CallKinds : r.calls[k] = 0

\* C11: a request is in flight at the PDF server only when return_pdf is
\* true and the LLM call has returned, without failing, a document that
\* contains an <html tag; a call with a template that does not exist raises
\* with no call made; when the LLM call returns, either the document kept
\* contains an <html tag or the enhancer raises with no PDF request sent;
\* and a file is written only by a step that takes the PDF server's answer
\* to such a request.
C11_PdfOnlyAfterHtml ==
    /\ [](req.pc = "pdf_post" =>
            /\ req.return_pdf
            /\ ContainsHtmlTag(req.html)
            /\ req.rets["llm_html"] = 1
            /\ req.failed = {})
    /\ [][ /\ (req.op = "generate_enhanced_resume" /\ req.pc = "called"
               /\ req.template_id # "1") =>
                  (req'.pc = "done" /\ req'.resp.raised = "FileNotFoundError"
                   /\ NoCallMade(req') /\ files' = files)
           /\ (req.pc = "llm_html" /\ req'.pc # "llm_html") =>
                  \/ ContainsHtmlTag(req'.html)
                  \/ /\ req'.pc = "done"
                     /\ req.op = "generate_enhanced_resume" => req'.resp.raised # ""
                     /\ req'.calls["pdf_post"] = 0
                     /\ files' = files
           /\ (req.pc = "llm_html" /\ req'.pc = "pdf_post") => req.return_pdf
           /\ files' # files =>
                  (req.pc = "pdf_post" /\ req.return_pdf /\ ContainsHtmlTag(req.html))
         ]_vars

C11_Witness ==
    /\ req.op = "generate_enhanced_resume" /\ req.pc = "insert"
    /\ ~req.return_pdf
    /\ ContainsHtmlTag(req.html)
    /\ req.calls["pdf_post"] = 0

\* the URLs passed to parse_job_from_url that start with http:// or https://
StartsWithHttp(url) == url \in {"https://jobs/1", "http://jobs/2"}

\* C12: parse_job_from_url, called with an empty URL or a URL that does not
\* start with http:// or https://, has raised ValueError once it is past its
\* first statement, with no page fetched and no LLM called; a page is
\* fetched and the LLM called only for the other URLs.
C12_BadUrlRaisesFirst ==
    (req.op = "parse_job_from_url" /\ req.pc # "called") =>
        /\ ~StartsWithHttp(req.job_url) =>
              /\ req.pc = "done"
              /\ req.resp.raised = "ValueError"
              /\ NoCallMade(req)
        /\ ~NoCallMade(req) => StartsWithHttp(req.job_url)

C12_Witness ==
    /\ req.op = "parse_job_from_url" /\ req.pc = "done"
    /\ req.job_url = ""
    /\ req.resp.raised = "ValueError"

\* the names passed to parse_resume that end, in any case, in .pdf or .docx
EndsInPdfOrDocx(name) == name \in {"cv.PDF", "cv.docx"}

\* C13: parse_resume, called with a file whose name does not end,
\* case-insensitively, in .pdf or .docx, has raised ValueError once it is
\* past the check, with no LLM called; it raises ValueError for no other
\* name, and calls the LLM only for a name that ends so.
C13_OtherNamesRaise ==
    (req.op = "parse_resume" /\ req.pc # "called") =>
        /\ ~EndsInPdfOrDocx(req.filename) =>
              /\ req.pc = "done"
              /\ req.resp.raised = "ValueError"
              /\ NoCallMade(req)
        /\ req.resp.raised = "ValueError" => ~EndsInPdfOrDocx(req.filename)
        /\ ~NoCallMade(req) => EndsInPdfOrDocx(req.filename)

C13_Witness ==
    /\ req.op = "parse_resume" /\ req.pc = "done"
    /\ req.filename = "cv.pdf.bak"
    /\ req.resp.raised = "ValueError"

HasUser(email) == \E i \in 1..Len(users) : users[i].email = email

\* C14: a register step for an email that has a user document answers 400
\* and leaves users as it is; for any other email it answers 201 and appends
\* to users one document, with that email, is_active true and a bcrypt hash
\* of the password (not the password) in the password field.
C14_RegisterOnceHashed ==
    [][ \A e \in Emails, p \in Passwords :
          Register(e, p) =>
              IF HasUser(e)
              THEN /\ users' = users
                   /\ req'.resp.status = 400
              ELSE /\ Len(users') = Len(users) + 1
                   /\ SubSeq(users', 1, Len(users)) = users
                   /\ users'[Len(users')].email = e
                   /\ users'[Len(users')].is_active = TRUE
                   /\ users'[Len(users')].password.scheme = "bcrypt"
                   /\ users'[Len(users')].password.of = p
                   /\ req'.resp.status = 201
      ]_vars

C14_Witness ==
    /\ req.op = "register" /\ req.pc = "done"
    /\ req.resp.status = 400
    /\ Len(users) = 2

\* C15: a login step issues a token exactly when a user document with the
\* submitted email exists and the submitted password is the one its hash
\* was made of; the token then names that email and the answer is 200;
\* otherwise the answer is 400 without a token; and users stays as it is.
C15_LoginIffVerified ==
    [][ \A e \in Emails, p \in LoginPasswords :
          Login(e, p) =>
              LET known == \E i \in 1..Len(users) :
                              /\ users[i].email = e
                              /\ users[i].password = [scheme |-> "bcrypt", of |-> p]
              IN  /\ req'.resp.access_token # NoToken <=> known
                  /\ known => /\ req'.resp.status = 200
                              /\ req'.resp.access_token.valid
                              /\ req'.resp.access_token.sub = e
                  /\ ~known => req'.resp.status = 400
                  /\ users' = users
      ]_vars

C15_Witness ==
    /\ req.op = "login" /\ req.pc = "done"
    /\ req.resp.status = 400
    /\ req.resp.access_token = NoToken
    /\ Len(users) = 2

\* the token does not pass get_current_user
Rejected(token) ==
    \/ ~token.valid
    \/ token.sub = NoClaim
    \/ token.role = NoClaim
    \/ ~HasUser(token.sub)

\* C16: a request to /auth/me or to a job-seeker endpoint whose token fails
\* validation, lacks sub or role, or names no stored user is answered 401
\* with nothing else done; any other is taken up as the stored user whose
\* email is the token's sub; until the token is looked at the request has
\* done nothing; and a handler's body runs only as that stored user.
C16_AuthFirst ==
    /\ [](req.pc = "auth" =>
            /\ NoCallMade(req) /\ req.ins = <<>> /\ req.steps = <<>>
            /\ req.resp = NoResp /\ req.user = "")
    /\ []((req.pc \notin {"idle", "auth", "done", "called"}
           /\ req.op \notin ServiceCalls) =>
            /\ ~Rejected(req.token)
            /\ req.user = req.token.sub)
    /\ [][ req.pc = "auth" =>
             IF Rejected(req.token)
             THEN /\ req'.pc = "done" /\ req'.resp.status = 401
                  /\ NoCallMade(req') /\ req'.ins = <<>>
                  /\ db' = db /\ files' = files
             ELSE /\ req'.pc = "body"
                  /\ req'.user = req.token.sub
                  /\ HasUser(req'.user)
         ]_vars

C16_Witness ==
    /\ req.op = "me" /\ req.pc = "done"
    /\ req.resp.status = 200
    /\ req.resp.user = "bob@x.io"

ListReturned == req.op = "list_analyses" /\ req.pc = "done" /\ req.resp.status = 200

\* C17: what list_analyses returns is at most 20 items, each the id of a
\* document of analyses whose user_email is the caller's, no document
\* twice, in an order in which updated_at never grows.
C17_OwnNewestTwenty ==
    ListReturned =>
        LET l == req.resp.listed
        IN  /\ Len(l) <= 20
            /\ \A k \in 1..Len(l) :
                  \E i \in 1..Len(analyses) :
                      /\ str(analyses[i]._id) = l[k].id
                      /\ analyses[i].user_email = req.user
                      /\ analyses[i].updated_at = l[k].updatedAt
            /\ \A k, m \in 1..Len(l) : k # m => l[k].id # l[m].id
            /\ \A k \in 1..(Len(l) - 1) : l[k].updatedAt >= l[k + 1].updatedAt

C17_Witness ==
    /\ ListReturned
    /\ req.user = "ann@x.io"
    /\ Len(req.resp.listed) = 20
    /\ Cardinality({ i \in 1..Len(analyses) : analyses[i].user_email = "ann@x.io" }) = 21
    /\ \E i \in 1..Len(analyses) : analyses[i].user_email = "bob@x.io"
    /\ req.resp.listed[1].updatedAt > req.resp.listed[20].updatedAt

HistoryReturned == req.op = "history" /\ req.pc = "done" /\ req.resp.status = 200


\* a document of coll, of this user, refers to the analysis
HasDerived(coll, email, oid) ==
    \E k \in 1..Len(coll) :
        coll[k].user_email = email /\ ObjectIdValid(coll[k].analysis_id) /\ ObjectId(coll[k].analysis_id) = oid

C19_NoDuplicateEmails ==
    \A i, j \in 1..Len(users) : i # j => users[i].email # users[j].email

====
